---- MODULE Spec2Model ----
(***************************************************************************)
(* Verification model of the poker card engine in src/card/mod.rs:         *)
(* cards and deck, evaluate_hand and its check_* helpers, verify, the      *)
(* Monte Carlo drivers and generate_all_starting_hands.                    *)
(*                                                                         *)
(* A card is a record [rank, suit].  rank is Rank::value() (2..14, Ace is  *)
(* 14); suit is the number Suit::from_number takes (1 Spades, 2 Hearts,    *)
(* 3 Diamonds, 4 Clubs).  Option::None of a rank is 0, Option::None of a   *)
(* HandEvaluation is NoEval.                                               *)
(***************************************************************************)
EXTENDS Integers, Sequences, FiniteSets

VARIABLES
    hole_cards,       \* evaluate_hand: the 2 hole cards (a sequence)
    community_cards,  \* evaluate_hand: the 0..5 community cards (a sequence)
    eval,             \* the HandEvaluation the last call returned, or NoEval
    hand_a,           \* verify: the caller's first hand
    hand_b,           \* verify: the caller's second hand
    shared_cards,     \* verify: the community cards both hands share
    outcome,          \* verify: the arguments and the return value of the
                      \* last call, or NoCall
    player_hand,      \* simulation: the player's 2 hole cards
    known_community,  \* simulation: the community cards already known
    num_simulations,  \* simulation: the number of trials asked for
    trials,           \* simulation: the iterations of the trial loop begun
    wins,             \* simulation: the three counters
    losses,
    ties,
    deck,             \* simulation: the trial's Deck, [cards, used_cards]
    opponent_hand,    \* simulation: the opponent cards drawn in the trial
    trial_community,  \* simulation: the trial's community_cards
    sim_pc,           \* simulation: where the driver stands
    results,          \* simulation: the SimulationResults returned
    hands,            \* generate_all_starting_hands: the hands pushed so far
    gen_i,            \* generate_all_starting_hands: the outer index i
    gen_j,            \* generate_all_starting_hands: the inner index j
    gen_pc,           \* generate_all_starting_hands: where the loops stand
    simulations_per_hand, \* bulk_monte_carlo_simulation: its argument
    bulk_index,       \* bulk_monte_carlo_simulation: the hands simulated so far
    bulk_results,     \* bulk_monte_carlo_simulation: its Vec<HandResult>
    bulk_pc,          \* bulk_monte_carlo_simulation: where the function stands
    bulk_winners,     \* bulk_monte_carlo_simulation: for each hand it is run
                      \* on, the winners a trial of the hand can have
    a_deck,           \* a Deck a caller holds, [cards, used_cards]
    deck_op,          \* the last call on a_deck and what it returned
    deck_ops,         \* the number of calls made on a_deck
    rank_arg,         \* Card::from_numbers: the rank_num it is called with
    suit_arg,         \* Card::from_numbers: the suit_num it is called with
    made_card         \* Card::from_numbers: what the call returned

evalVars == <<hole_cards, community_cards, eval>>
verifyVars == <<hand_a, hand_b, shared_cards, outcome>>
simInputs == <<player_hand, known_community, num_simulations>>
simVars == <<simInputs, trials, wins, losses, ties, deck, opponent_hand,
             trial_community, sim_pc, results>>
genVars == <<hands, gen_i, gen_j, gen_pc>>
bulkVars == <<simulations_per_hand, bulk_index, bulk_results, bulk_pc,
              bulk_winners>>
deckVars == <<a_deck, deck_op, deck_ops>>
cardVars == <<rank_arg, suit_arg, made_card>>

vars == <<evalVars, verifyVars, simVars, genVars, bulkVars, deckVars, cardVars>>

----------------------------------------------------------------------------
(* Card model *)

Spades == 1
Hearts == 2
Diamonds == 3
Clubs == 4

Two == 2
Three == 3
Four == 4
Five == 5
Six == 6
Seven == 7
Eight == 8
Nine == 9
Ten == 10
Jack == 11
Queen == 12
King == 13
Ace == 14

Ranks == Two..Ace
Suits == {Spades, Hearts, Diamonds, Clubs}

\* the order in which every check_* loop visits the suits
SuitOrder == <<Spades, Hearts, Diamonds, Clubs>>

Card(rank, suit) == [rank |-> rank, suit |-> suit]

\* Option::None of a Card
NoCard == [rank |-> 0, suit |-> 0]

\* Suit::from_number: 0 is None
Suit_from_number(num) == IF num \in 1..4 THEN num ELSE 0

\* Rank::from_number as it would be if the Ace were numbered by its value
Rank_from_number_ace_high(num) ==
    IF num \in 2..14 THEN num ELSE 0

\* Rank::from_number: 1 is the Ace, 2..13 the rank of that value, 0 is None
Rank_from_number(num) ==
    IF num = 1 THEN Ace ELSE IF num \in 2..13 THEN num ELSE 0

Card_from_numbers(rank_num, suit_num) ==
    IF Rank_from_number(rank_num) # 0 /\ Suit_from_number(suit_num) # 0
    THEN Card(Rank_from_number(rank_num), Suit_from_number(suit_num))
    ELSE NoCard

\* the cards both Deck::new and generate_all_starting_hands build: for each
\* suit number 1..4, for each rank number 1..13, the card from_numbers gives
AllCards ==
    LET made == [k \in 1..52 |->
                    Card_from_numbers(((k - 1) % 13) + 1, ((k - 1) \div 13) + 1)]
        some(c) == c # NoCard
    IN  SelectSeq(made, some)

HighCard == 1
Pair == 2
TwoPair == 3
ThreeOfAKind == 4
Straight == 5
Flush == 6
FullHouse == 7
FourOfAKind == 8
StraightFlush == 9
RoyalFlush == 10

HandEvaluation(rank, high_cards) == [rank |-> rank, high_cards |-> high_cards]

NoEval == [rank |-> 0, high_cards |-> <<>>]

NoCall == [first |-> <<>>, second |-> <<>>, winner |-> "", eval_a |-> NoEval,
           eval_b |-> NoEval]

----------------------------------------------------------------------------
(* Helpers on sequences *)

Min(S) == CHOOSE x \in S : \A y \in S : x <= y
Max(S) == CHOOSE x \in S : \A y \in S : x >= y

Range(s) == {s[i] : i \in DOMAIN s}

\* iter().take(n)
Take(s, n) == SubSeq(s, 1, IF Len(s) < n THEN Len(s) ELSE n)

\* iter().map(|c| c.rank).collect()
RanksOf(cards) == [i \in DOMAIN cards |-> cards[i].rank]

\* cards.sort_by(|a, b| b.rank.cmp(&a.rank)): a stable sort, highest rank
\* first; cards of equal rank keep the order they had
RECURSIVE sort_cards_desc(_)
sort_cards_desc(cards) ==
    IF cards = <<>> THEN <<>>
    ELSE LET n == Len(cards)
             s == sort_cards_desc(SubSeq(cards, 1, n - 1))
             c == cards[n]
             k == Cardinality({i \in DOMAIN s : s[i].rank >= c.rank})
         IN  SubSeq(s, 1, k) \o <<c>> \o SubSeq(s, k + 1, Len(s))

\* ranks.sort_by(|a, b| b.cmp(a)) on a Vec<Rank>
RECURSIVE sort_ranks_desc(_)
sort_ranks_desc(ranks) ==
    IF ranks = <<>> THEN <<>>
    ELSE LET n == Len(ranks)
             s == sort_ranks_desc(SubSeq(ranks, 1, n - 1))
             r == ranks[n]
             k == Cardinality({i \in DOMAIN s : s[i] >= r})
         IN  SubSeq(s, 1, k) \o <<r>> \o SubSeq(s, k + 1, Len(s))

\* a HashSet<Rank> collected into a Vec and sorted highest first: the set's
\* iteration order is lost in the sort, as the ranks are distinct
RECURSIVE SetToSortedDesc(_)
SetToSortedDesc(S) ==
    IF S = {} THEN <<>>
    ELSE LET m == Max(S) IN <<m>> \o SetToSortedDesc(S \ {m})

\* all the orders of a set, as sequences
RECURSIVE Permutations(_)
Permutations(S) ==
    IF S = {} THEN {<<>>}
    ELSE UNION {{<<x>> \o p : p \in Permutations(S \ {x})} : x \in S}

----------------------------------------------------------------------------
(* Hand evaluator *)

\* the HashMap from each rank present to the number of cards of that rank
count_ranks(cards) ==
    [r \in Range(RanksOf(cards)) |->
        Cardinality({i \in DOMAIN cards : cards[i].rank = r})]

\* rank_counts.iter(): a HashMap is visited in an unspecified order, which
\* can differ from one map to the next.  No loop of the evaluator does
\* anything on an entry whose count is 1, so the orders enumerated are those
\* of the entries with count >= 2, followed by the other entries.
IterOrders(rank_counts) ==
    LET multi == {r \in DOMAIN rank_counts : rank_counts[r] >= 2}
        rest  == SetToSortedDesc(DOMAIN rank_counts \ multi)
    IN  {p \o rest : p \in Permutations(multi)}

\* find_straight as it would be without the check for the wheel
find_straight_no_wheel(ranks) ==
    LET sorted_ranks == SetToSortedDesc(Range(ranks))
        n == Len(sorted_ranks)
        runs == IF n >= 5
                THEN {i \in 1..(n - 4) :
                        \A j \in 0..3 :
                            sorted_ranks[i + j] = sorted_ranks[i + j + 1] + 1}
                ELSE {}
    IN  IF runs # {} THEN sorted_ranks[Min(runs)] ELSE 0

\* find_straight as it would be if the wheel reported the Ace as its high
\* card
find_straight_wheel_ace_high(ranks) ==
    LET sorted_ranks == SetToSortedDesc(Range(ranks))
        n == Len(sorted_ranks)
        runs == IF n >= 5
                THEN {i \in 1..(n - 4) :
                        \A j \in 0..3 :
                            sorted_ranks[i + j] = sorted_ranks[i + j + 1] + 1}
                ELSE {}
    IN  IF runs # {} THEN sorted_ranks[Min(runs)]
        ELSE IF {Ace, Two, Three, Four, Five} \subseteq Range(sorted_ranks)
             THEN Ace
             ELSE 0

find_straight(ranks) ==
    LET sorted_ranks == SetToSortedDesc(Range(ranks))
        n == Len(sorted_ranks)
        runs == IF n >= 5
                THEN {i \in 1..(n - 4) :
                        \A j \in 0..3 :
                            sorted_ranks[i + j] = sorted_ranks[i + j + 1] + 1}
                ELSE {}
    IN  IF runs # {} THEN sorted_ranks[Min(runs)]
        ELSE IF {Ace, Two, Three, Four, Five} \subseteq Range(sorted_ranks)
             THEN Five
             ELSE 0

\* cards.iter().filter(|c| c.suit == suit).collect()
SuitCards(cards, suit) ==
    LET of_suit(c) == c.suit = suit
    IN  SelectSeq(cards, of_suit)

check_royal_flush(cards) ==
    LET royal == {i \in 1..4 :
            LET suit_cards == SuitCards(cards, SuitOrder[i])
            IN  /\ Len(suit_cards) >= 5
                /\ \A rank \in {Ace, King, Queen, Jack, Ten} :
                      \E k \in DOMAIN suit_cards : suit_cards[k].rank = rank}
    IN  IF royal # {} THEN HandEvaluation(RoyalFlush, <<Ace>>) ELSE NoEval

\* check_straight_flush as it would be if it looked for the straight among
\* all the cards once some suit holds 5 cards
check_straight_flush_any_suit(cards) ==
    LET flush == \E i \in 1..4 : Len(SuitCards(cards, SuitOrder[i])) >= 5
        high == find_straight(RanksOf(cards))
    IN  IF flush /\ high # 0 THEN HandEvaluation(StraightFlush, <<high>>)
        ELSE NoEval

check_straight_flush(cards) ==
    LET high(i) ==
            find_straight(RanksOf(sort_cards_desc(SuitCards(cards, SuitOrder[i]))))
        found == {i \in 1..4 : high(i) # 0}
    IN  IF found # {} THEN HandEvaluation(StraightFlush, <<high(Min(found))>>)
        ELSE NoEval

\* the first entry of the iteration that satisfies the loop's test, or 0
FirstRank(iter, Match) ==
    LET hits == {i \in DOMAIN iter : iter[i] \in Match}
    IN  IF hits = {} THEN 0 ELSE iter[Min(hits)]

\* FirstOtherRank as it would be if the cards were searched from the lowest
FirstOtherRank_lowest(cards, excluded) ==
    LET other(c) == c.rank \notin excluded
        rest == SelectSeq(cards, other)
    IN  IF rest = <<>> THEN Two ELSE rest[Len(rest)].rank

\* cards.iter().find(|c| c.rank != ..).map(|c| c.rank).unwrap_or(Rank::Two)
FirstOtherRank(cards, excluded) ==
    LET other(c) == c.rank \notin excluded
        rest == SelectSeq(cards, other)
    IN  IF rest = <<>> THEN Two ELSE rest[1].rank

check_four_of_a_kind(cards, iter) ==
    LET rank_counts == count_ranks(cards)
        rank == FirstRank(iter, {r \in DOMAIN rank_counts : rank_counts[r] >= 4})
    IN  IF rank # 0
        THEN HandEvaluation(FourOfAKind, <<rank, FirstOtherRank(cards, {rank})>>)
        ELSE NoEval

\* the loop of check_full_house over the entries still to visit
RECURSIVE full_house_scan(_, _, _, _)
full_house_scan(rank_counts, iter, trips, pair) ==
    IF iter = <<>> THEN <<trips, pair>>
    ELSE LET rank == Head(iter)
             count == rank_counts[rank]
         IN  IF count >= 3 /\ trips = 0
             THEN full_house_scan(rank_counts, Tail(iter), rank, pair)
             ELSE IF count >= 2 /\ pair = 0
                  THEN full_house_scan(rank_counts, Tail(iter), trips, rank)
                  ELSE full_house_scan(rank_counts, Tail(iter), trips, pair)

check_full_house(cards, iter) ==
    LET found == full_house_scan(count_ranks(cards), iter, 0, 0)
    IN  IF found[1] # 0 /\ found[2] # 0
        THEN HandEvaluation(FullHouse, <<found[1], found[2]>>)
        ELSE NoEval

check_flush(cards) ==
    LET found == {i \in 1..4 : Len(SuitCards(cards, SuitOrder[i])) >= 5}
    IN  IF found # {}
        THEN LET suit_cards == sort_cards_desc(SuitCards(cards, SuitOrder[Min(found)]))
             IN  HandEvaluation(Flush, RanksOf(Take(suit_cards, 5)))
        ELSE NoEval

check_straight(cards) ==
    LET high_card == find_straight(RanksOf(cards))
    IN  IF high_card # 0 THEN HandEvaluation(Straight, <<high_card>>) ELSE NoEval

\* the kickers of check_three_of_a_kind and check_pair: the ranks of the
\* cards not of the given rank, sorted highest first, truncated to n
Kickers(cards, rank, n) ==
    LET other(c) == c.rank # rank
    IN  Take(sort_ranks_desc(RanksOf(SelectSeq(cards, other))), n)

check_three_of_a_kind(cards, iter) ==
    LET rank_counts == count_ranks(cards)
        rank == FirstRank(iter, {r \in DOMAIN rank_counts : rank_counts[r] >= 3})
    IN  IF rank # 0
        THEN HandEvaluation(ThreeOfAKind, <<rank>> \o Kickers(cards, rank, 2))
        ELSE NoEval

check_two_pair(cards, iter) ==
    LET rank_counts == count_ranks(cards)
        paired(r) == rank_counts[r] >= 2
        pairs == sort_ranks_desc(SelectSeq(iter, paired))
    IN  IF Len(pairs) >= 2
        THEN HandEvaluation(TwoPair,
                <<pairs[1], pairs[2], FirstOtherRank(cards, {pairs[1], pairs[2]})>>)
        ELSE NoEval

check_pair(cards, iter) ==
    LET rank_counts == count_ranks(cards)
        rank == FirstRank(iter, {r \in DOMAIN rank_counts : rank_counts[r] >= 2})
    IN  IF rank # 0
        THEN HandEvaluation(Pair, <<rank>> \o Kickers(cards, rank, 3))
        ELSE NoEval

\* evaluate_hand(hole, community) when the rank-count maps are visited in
\* the order iter.  Each check_* builds a map of its own; one order stands
\* for all of them, as whether a check returns Some does not depend on the
\* order and only the first check that returns Some decides the result.
evaluate_hand(hole, community, iter) ==
    LET all_cards == sort_cards_desc(hole \o community)
        royal == check_royal_flush(all_cards)
        sflush == check_straight_flush(all_cards)
        quads == check_four_of_a_kind(all_cards, iter)
        full == check_full_house(all_cards, iter)
        flush == check_flush(all_cards)
        straight == check_straight(all_cards)
        trips == check_three_of_a_kind(all_cards, iter)
        twopair == check_two_pair(all_cards, iter)
        pair == check_pair(all_cards, iter)
    IN  IF royal # NoEval THEN royal
        ELSE IF sflush # NoEval THEN sflush
        ELSE IF quads # NoEval THEN quads
        ELSE IF full # NoEval THEN full
        ELSE IF flush # NoEval THEN flush
        ELSE IF straight # NoEval THEN straight
        ELSE IF trips # NoEval THEN trips
        ELSE IF twopair # NoEval THEN twopair
        ELSE IF pair # NoEval THEN pair
        ELSE HandEvaluation(HighCard, RanksOf(Take(all_cards, 5)))

\* the orders in which a call on these cards can visit its rank-count map
HandIterOrders(hole, community) == IterOrders(count_ranks(hole \o community))

\* the evaluations a call of evaluate_hand on these cards can return
Evaluations(hole, community) ==
    {evaluate_hand(hole, community, iter) : iter \in HandIterOrders(hole, community)}

----------------------------------------------------------------------------
(* Comparator *)

\* the comparison of two Vec<Rank> as it would be if only their first
\* elements were compared
cmp_high_cards_first_only(a, b) ==
    IF a = <<>> /\ b = <<>> THEN "Equal"
    ELSE IF a = <<>> THEN "Less"
    ELSE IF b = <<>> THEN "Greater"
    ELSE IF Head(a) > Head(b) THEN "Greater"
    ELSE IF Head(a) < Head(b) THEN "Less"
    ELSE "Equal"

\* Ord::cmp of two Vec<Rank>: element by element from the front, the first
\* difference decides; when one is a prefix of the other the shorter is Less
RECURSIVE cmp_high_cards(_, _)
cmp_high_cards(a, b) ==
    IF a = <<>> /\ b = <<>> THEN "Equal"
    ELSE IF a = <<>> THEN "Less"
    ELSE IF b = <<>> THEN "Greater"
    ELSE IF Head(a) > Head(b) THEN "Greater"
    ELSE IF Head(a) < Head(b) THEN "Less"
    ELSE cmp_high_cards(Tail(a), Tail(b))

\* Ord::cmp of two HandRank values: the derived order of the discriminants
cmp_hand_rank(a, b) ==
    IF a > b THEN "Greater" ELSE IF a < b THEN "Less" ELSE "Equal"

\* the match of verify on the two evaluations: the category first, the
\* tie-break sequences when the categories are equal
verify_winner(eval_a, eval_b) ==
    LET by_rank == cmp_hand_rank(eval_a.rank, eval_b.rank)
        by_high == cmp_high_cards(eval_a.high_cards, eval_b.high_cards)
    IN  IF by_rank = "Greater" THEN "Hand A"
        ELSE IF by_rank = "Less" THEN "Hand B"
        ELSE IF by_high = "Greater" THEN "Hand A"
        ELSE IF by_high = "Less" THEN "Hand B"
        ELSE "Tie"

\* the values verify(first, second, community) can return: the winner and
\* the two evaluations, each of them one its call of evaluate_hand can return
verify(first, second, community) ==
    {[first |-> first, second |-> second,
      winner |-> verify_winner(eval_a, eval_b),
      eval_a |-> eval_a, eval_b |-> eval_b] :
        eval_a \in Evaluations(first, community),
        eval_b \in Evaluations(second, community)}

----------------------------------------------------------------------------
(* Inputs of the evaluator *)

\* The cards the evaluator's inputs are drawn from: the first EvalDeckSize
\* cards of EvalDeckOrder.  The order puts first the cards that make every
\* category possible: ten spades (the royal ranks and 2..6), then the other
\* suits of Ace, King and Six.
EvalDeckSize == 17

EvalDeckOrder ==
    <<Card(Ace, Spades), Card(King, Spades), Card(Queen, Spades),
      Card(Jack, Spades), Card(Ten, Spades), Card(Two, Spades),
      Card(Three, Spades), Card(Four, Spades), Card(Five, Spades),
      Card(Six, Spades),
      Card(Ace, Hearts), Card(King, Hearts), Card(Six, Hearts),
      Card(Ace, Diamonds), Card(King, Diamonds), Card(Six, Diamonds),
      Card(Ace, Clubs), Card(King, Clubs), Card(Six, Clubs),
      Card(Queen, Hearts), Card(Two, Hearts), Card(Three, Hearts),
      Card(Queen, Diamonds), Card(Two, Diamonds)>>

EvalDeck == SubSeq(EvalDeckOrder, 1, EvalDeckSize)

\* the increasing sequences of k indices in lo..hi
RECURSIVE Combos(_, _, _)
Combos(lo, hi, k) ==
    IF k = 0 THEN {<<>>}
    ELSE IF hi - lo + 1 < k THEN {}
    ELSE {<<lo>> \o c : c \in Combos(lo + 1, hi, k - 1)} \cup Combos(lo + 1, hi, k)

\* 2 hole cards and 5 community cards, 7 distinct cards of EvalDeck
EvalInputs ==
    {[hole |-> <<EvalDeck[c[1]], EvalDeck[c[2]]>>,
      community |-> [i \in 1..5 |-> EvalDeck[c[i + 2]]]] :
        c \in Combos(1, EvalDeckSize, 7)}

Reverse(s) == [i \in DOMAIN s |-> s[Len(s) + 1 - i]]

CardSet == Range(hole_cards \o community_cards)

----------------------------------------------------------------------------
(* The evaluator called on given cards *)

EvalIdle ==
    /\ hole_cards = <<>>
    /\ community_cards = <<>>
    /\ eval = NoEval

SimIdle ==
    /\ player_hand = <<>>
    /\ known_community = <<>>
    /\ num_simulations = 0
    /\ trials = 0
    /\ wins = 0
    /\ losses = 0
    /\ ties = 0
    /\ deck = [cards |-> <<>>, used_cards |-> <<>>]
    /\ opponent_hand = <<>>
    /\ trial_community = <<>>
    /\ sim_pc = "idle"
    /\ results = [total_games |-> 0, wins |-> 0, losses |-> 0, ties |-> 0]

GenIdle ==
    /\ hands = <<>>
    /\ gen_i = 0
    /\ gen_j = 0
    /\ gen_pc = "idle"

VerifyIdle ==
    /\ hand_a = <<>>
    /\ hand_b = <<>>
    /\ shared_cards = <<>>
    /\ outcome = NoCall

BulkIdle ==
    /\ simulations_per_hand = 0
    /\ bulk_index = 0
    /\ bulk_results = <<>>
    /\ bulk_pc = "idle"
    /\ bulk_winners = <<>>

\* no call made on the deck yet
NoDeckOp == [name |-> "", card |-> NoCard, ok |-> TRUE]

DeckIdle ==
    /\ a_deck = [cards |-> <<>>, used_cards |-> <<>>]
    /\ deck_op = NoDeckOp
    /\ deck_ops = 0

\* Card::from_numbers not called yet
NotMade == [rank |-> -1, suit |-> -1]

CardIdle ==
    /\ rank_arg = 0
    /\ suit_arg = 0
    /\ made_card = NotMade

EvalInit ==
    /\ \E h \in EvalInputs :
          /\ hole_cards = h.hole
          /\ community_cards = h.community
    /\ eval = NoEval
    /\ VerifyIdle
    /\ SimIdle
    /\ GenIdle
    /\ BulkIdle
    /\ DeckIdle
    /\ CardIdle

\* a call of evaluate_hand on the cards held
Evaluate ==
    /\ eval' \in Evaluations(hole_cards, community_cards)
    /\ UNCHANGED <<hole_cards, community_cards, verifyVars, simVars, genVars, bulkVars, deckVars, cardVars>>

\* the caller passes the same cards in the opposite order
Reorder ==
    /\ LET all == Reverse(hole_cards \o community_cards)
       IN  /\ hole_cards' = SubSeq(all, 1, 2)
           /\ community_cards' = SubSeq(all, 3, Len(all))
    /\ UNCHANGED <<eval, verifyVars, simVars, genVars, bulkVars, deckVars, cardVars>>

EvalNext == Evaluate \/ Reorder

SpecEval == EvalInit /\ [][EvalNext]_vars

----------------------------------------------------------------------------
(* Properties of the evaluator *)

\* C1: every call of evaluate_hand on the same cards, in any order of the
\* cards and on any repetition of the call, returns the identical category
\* and the identical tie-break sequence.
C1_SameCardsSameEvaluation ==
    [][(eval # NoEval /\ eval' # NoEval /\ CardSet' = CardSet) => eval' = eval]_vars

\* the number of cards of a rank among the cards held
CountOf(rank) == Cardinality({c \in CardSet : c.rank = rank})

\* the ranks of a straight by its high rank; the wheel's high rank is Five
RunRanks(high) == IF high = Five THEN {Ace, Two, Three, Four, Five}
                  ELSE (high - 4)..high

\* the high ranks of the straights a set of ranks contains
RunsIn(ranks) == {high \in Five..Ace : RunRanks(high) \subseteq ranks}

\* standard poker category of exactly 5 cards
Category5(five) ==
    LET ranks == {c.rank : c \in five}
        count(r) == Cardinality({c \in five : c.rank = r})
        flush == Cardinality({c.suit : c \in five}) = 1
        straight == RunsIn(ranks) # {}
        pairs == {r \in ranks : count(r) = 2}
    IN  IF flush /\ ranks = Ten..Ace THEN RoyalFlush
        ELSE IF flush /\ straight THEN StraightFlush
        ELSE IF \E r \in ranks : count(r) = 4 THEN FourOfAKind
        ELSE IF (\E r \in ranks : count(r) = 3) /\ pairs # {} THEN FullHouse
        ELSE IF flush THEN Flush
        ELSE IF straight THEN Straight
        ELSE IF \E r \in ranks : count(r) = 3 THEN ThreeOfAKind
        ELSE IF Cardinality(pairs) = 2 THEN TwoPair
        ELSE IF Cardinality(pairs) = 1 THEN Pair
        ELSE HighCard

BestCategory(cards) ==
    Max({Category5(five) : five \in {f \in SUBSET cards : Cardinality(f) = 5}})

\* C2: on 2 hole cards plus 5 community cards the category returned is the
\* highest category of any 5-card subset of the 7 cards.
C2_BestFiveCardCategory ==
    (eval # NoEval /\ Cardinality(CardSet) = 7)
        => eval.rank = BestCategory(CardSet)

\* a flush and a pair both exist and the call has returned
C2_Witness ==
    /\ eval # NoEval
    /\ eval.rank = Flush
    /\ \E r \in Ranks : CountOf(r) >= 2

HeldRanks == {c.rank : c \in CardSet}

\* the ranks held in one suit
SuitRanks(suit) == {c.rank : c \in {d \in CardSet : d.suit = suit}}

SuitSize(suit) == Cardinality({c \in CardSet : c.suit = suit})

\* C5: cards that contain A,2,3,4,5 and allow no higher category give
\* Straight, never HighCard, and the tie-break is the high rank of the
\* highest run held: Five when the wheel is the only run, a higher rank
\* when a higher run is held too, so that the wheel is the lowest straight.
C5_WheelIsStraight ==
    (/\ eval # NoEval
     /\ RunRanks(Five) \subseteq HeldRanks
     /\ \A suit \in Suits : SuitSize(suit) < 5
     /\ \A r \in Ranks : CountOf(r) < 4
     /\ ~(\E t, p \in Ranks : t # p /\ CountOf(t) >= 3 /\ CountOf(p) >= 2))
        => /\ eval.rank = Straight
           /\ eval.high_cards = <<Max(RunsIn(HeldRanks))>>
           /\ RunsIn(HeldRanks) # {Five} => eval.high_cards[1] > Five

\* the wheel is the only run held and the call returned it
C5_Witness ==
    /\ eval = HandEvaluation(Straight, <<Five>>)
    /\ RunsIn(HeldRanks) = {Five}
    /\ \A suit \in Suits : SuitSize(suit) < 5

\* some suit holds all of A,K,Q,J,10
RoyalHeld == \E suit \in Suits : Ten..Ace \subseteq SuitRanks(suit)

\* C6: StraightFlush is returned exactly when some suit holds 5 ranks that
\* form a run (the wheel included) and no suit holds A,K,Q,J,10; the
\* tie-break is the high rank of the highest run within that suit.
C6_StraightFlushWithinOneSuit ==
    eval # NoEval
        => /\ (eval.rank = StraightFlush)
                <=> (~RoyalHeld /\ \E suit \in Suits : RunsIn(SuitRanks(suit)) # {})
           /\ eval.rank = StraightFlush
                => \E suit \in Suits :
                      /\ RunsIn(SuitRanks(suit)) # {}
                      /\ eval.high_cards = <<Max(RunsIn(SuitRanks(suit)))>>

\* a straight and a flush are both held but share no 5 cards of one suit,
\* and the call returned Flush
C6_Witness ==
    /\ eval # NoEval
    /\ eval.rank = Flush
    /\ RunsIn(HeldRanks) # {}
    /\ \A suit \in Suits : RunsIn(SuitRanks(suit)) = {}

\* the n highest ranks among the cards whose rank is not in defining
TopKickers(defining, n) == Take(SetToSortedDesc(HeldRanks \ defining), n)

\* the ranks held at least twice, highest first
PairedRanks == SetToSortedDesc({r \in Ranks : CountOf(r) >= 2})

\* C7: on 7 cards the tie-break of FourOfAKind, ThreeOfAKind, TwoPair and
\* Pair is the category-defining rank(s) followed by the 1, 2, 1 and 3
\* highest ranks among the cards not of those ranks.
C7_KickersAreHighestRemaining ==
    (eval # NoEval /\ Cardinality(CardSet) = 7)
        => /\ eval.rank = FourOfAKind
                => \E q \in Ranks :
                      /\ CountOf(q) = 4
                      /\ eval.high_cards = <<q>> \o TopKickers({q}, 1)
           /\ eval.rank = ThreeOfAKind
                => \E t \in Ranks :
                      /\ CountOf(t) = 3
                      /\ eval.high_cards = <<t>> \o TopKickers({t}, 2)
           /\ eval.rank = TwoPair
                => LET hi == PairedRanks[1]
                       lo == PairedRanks[2]
                   IN  eval.high_cards = <<hi, lo>> \o TopKickers({hi, lo}, 1)
           /\ eval.rank = Pair
                => \E p \in Ranks :
                      /\ CountOf(p) = 2
                      /\ eval.high_cards = <<p>> \o TopKickers({p}, 3)

\* three pairs are held, the seventh card is lower than the third pair, and
\* the call returned the third pair's rank as the kicker
C7_Witness ==
    /\ eval # NoEval
    /\ eval.rank = TwoPair
    /\ Len(PairedRanks) = 3
    /\ eval.high_cards = PairedRanks

\* C17: when evaluate_hand returns FullHouse the tie-break is [T, P], T the
\* highest rank held at least three times and P the highest rank other than
\* T held at least twice.
C17_FullHouseStrongest ==
    (eval # NoEval /\ eval.rank = FullHouse)
        => LET T == Max({r \in Ranks : CountOf(r) >= 3})
               P == Max({r \in Ranks \ {T} : CountOf(r) >= 2})
           IN  eval.high_cards = <<T, P>>

----------------------------------------------------------------------------
(* The comparator called on given hands *)

\* The cards the comparator's inputs are drawn from: the first
\* VerifyDeckSize cards of VerifyDeckOrder.
VerifyDeckSize == 10

VerifyDeckOrder ==
    <<Card(Ace, Spades), Card(Ace, Hearts), Card(Ace, Diamonds),
      Card(King, Spades), Card(King, Hearts), Card(King, Diamonds),
      Card(Queen, Spades), Card(Jack, Spades), Card(Two, Hearts),
      Card(Three, Diamonds), Card(Ten, Spades), Card(Queen, Hearts)>>

VerifyDeck == SubSeq(VerifyDeckOrder, 1, VerifyDeckSize)

\* the cards of VerifyDeck at the given indices
VerifyCards(indices) == [i \in DOMAIN indices |-> VerifyDeck[indices[i]]]

VerifyBoards == Combos(1, VerifyDeckSize, 5)

\* the increasing pairs of the given indices
IndexPairs(indices) == {p \in indices \X indices : p[1] < p[2]}

\* 5 community cards and two hands of 2 cards, 9 distinct cards of
\* VerifyDeck; the two hands are passed to verify in either order
VerifyInit ==
    /\ \E c \in VerifyBoards :
          \E x \in IndexPairs((1..VerifyDeckSize) \ Range(c)) :
              \E y \in IndexPairs((1..VerifyDeckSize) \ (Range(c) \cup Range(x))) :
                  /\ x[1] < y[1]
                  /\ hand_a = VerifyCards(x)
                  /\ hand_b = VerifyCards(y)
                  /\ shared_cards = VerifyCards(c)
    /\ outcome = NoCall
    /\ EvalIdle
    /\ SimIdle
    /\ GenIdle
    /\ BulkIdle
    /\ DeckIdle
    /\ CardIdle

\* a call verify(first, second, shared_cards)
VerifyCall(first, second) ==
    /\ outcome' \in verify(first, second, shared_cards)
    /\ UNCHANGED <<hand_a, hand_b, shared_cards, evalVars, simVars, genVars, bulkVars, deckVars, cardVars>>

\* the caller passes the two hands in one order
VerifyAB == VerifyCall(hand_a, hand_b)

\* the caller passes the two hands in the other order
VerifyBA == VerifyCall(hand_b, hand_a)

VerifyNext == VerifyAB \/ VerifyBA

SpecVerify == VerifyInit /\ [][VerifyNext]_vars

----------------------------------------------------------------------------
(* Properties of the comparator *)

\* the outcome of a call, seen from the call with the arguments swapped
Negated(winner) ==
    IF winner = "Hand A" THEN "Hand B"
    ELSE IF winner = "Hand B" THEN "Hand A"
    ELSE winner

\* C3: swapping the two hands of verify negates the outcome ("Hand A"
\* becomes "Hand B", "Tie" stays "Tie"), and two hands whose evaluations
\* are equal always yield "Tie".
C3_SwapNegatesOutcome ==
    /\ [][(/\ outcome # NoCall
           /\ outcome' # NoCall
           /\ outcome'.first = outcome.second
           /\ outcome'.second = outcome.first)
            => outcome'.winner = Negated(outcome.winner)]_vars
    /\ [](outcome # NoCall /\ outcome.eval_a = outcome.eval_b
            => outcome.winner = "Tie")

\* the positions at which two tie-break sequences differ
Differences(a, b) ==
    {i \in DOMAIN a \cap DOMAIN b : a[i] # b[i]}

\* C4: the higher category wins whatever the tie-breaks are; on equal
\* categories the first difference of the tie-break sequences, from the
\* most significant rank, decides; only sequences of equal length and equal
\* values give "Tie".
C4_CategoryThenTieBreak ==
    outcome # NoCall =>
        LET ea == outcome.eval_a
            eb == outcome.eval_b
            diff == Differences(ea.high_cards, eb.high_cards)
        IN  /\ ea.rank > eb.rank => outcome.winner = "Hand A"
            /\ ea.rank < eb.rank => outcome.winner = "Hand B"
            /\ (ea.rank = eb.rank /\ diff # {})
                  => outcome.winner =
                        IF ea.high_cards[Min(diff)] > eb.high_cards[Min(diff)]
                        THEN "Hand A" ELSE "Hand B"
            /\ outcome.winner = "Tie"
                  <=> (ea.rank = eb.rank /\ ea.high_cards = eb.high_cards)

\* a call on two hands of the same category whose tie-breaks agree on the
\* first rank and differ later, the later rank deciding against the order
\* of a still later one
C4_Witness ==
    /\ outcome # NoCall
    /\ outcome.eval_a.rank = outcome.eval_b.rank
    /\ LET diff == Differences(outcome.eval_a.high_cards, outcome.eval_b.high_cards)
       IN  /\ diff # {}
           /\ Min(diff) > 1
    /\ outcome.winner = "Hand B"

----------------------------------------------------------------------------
(* Deck *)

\* Deck::new
Deck_new == [cards |-> AllCards, used_cards |-> <<>>]

\* s without its element at position pos (1-based): Vec::remove
RemoveAt(s, pos) == SubSeq(s, 1, pos - 1) \o SubSeq(s, pos + 1, Len(s))

\* Deck::draw as it would be if the card drawn were cloned and left among
\* the available cards
Deck_draw_keep(d, index) ==
    IF d.cards = <<>> THEN [deck |-> d, card |-> NoCard]
    ELSE [deck |-> [cards |-> d.cards,
                    used_cards |-> Append(d.used_cards, d.cards[index + 1])],
          card |-> d.cards[index + 1]]

\* Deck::draw when rng.gen_range(0..len) returns index (0-based); on an
\* empty deck the card is NoCard and the deck is unchanged
Deck_draw(d, index) ==
    IF d.cards = <<>> THEN [deck |-> d, card |-> NoCard]
    ELSE [deck |-> [cards |-> RemoveAt(d.cards, index + 1),
                    used_cards |-> Append(d.used_cards, d.cards[index + 1])],
          card |-> d.cards[index + 1]]

\* Deck::remove_card as it would be if the card removed were not pushed to
\* the used cards
Deck_remove_card_dropped(d, card) ==
    LET found == {i \in DOMAIN d.cards : d.cards[i] = card}
    IN  IF found # {}
        THEN [deck |-> [cards |-> RemoveAt(d.cards, Min(found)),
                        used_cards |-> d.used_cards],
              ok |-> TRUE]
        ELSE [deck |-> d, ok |-> FALSE]

\* Deck::remove_card as it would be if a card that is not found were
\* reported as removed
Deck_remove_card_always_ok(d, card) ==
    LET found == {i \in DOMAIN d.cards : d.cards[i] = card}
    IN  IF found # {}
        THEN [deck |-> [cards |-> RemoveAt(d.cards, Min(found)),
                        used_cards |-> Append(d.used_cards, d.cards[Min(found)])],
              ok |-> TRUE]
        ELSE [deck |-> d, ok |-> TRUE]

\* Deck::remove_card: ok is FALSE for Err
Deck_remove_card(d, card) ==
    LET found == {i \in DOMAIN d.cards : d.cards[i] = card}
    IN  IF found # {}
        THEN [deck |-> [cards |-> RemoveAt(d.cards, Min(found)),
                        used_cards |-> Append(d.used_cards, d.cards[Min(found)])],
              ok |-> TRUE]
        ELSE [deck |-> d, ok |-> FALSE]

\* Deck::add as it would be without the check of the used cards: a used
\* card is taken out of them and pushed to the available cards
Deck_add_moves_back(d, card) ==
    LET used == {i \in DOMAIN d.used_cards : d.used_cards[i] = card}
    IN  IF card \in Range(d.cards) THEN [deck |-> d, ok |-> FALSE]
        ELSE [deck |-> [cards |-> Append(d.cards, card),
                        used_cards |-> IF used # {}
                                       THEN RemoveAt(d.used_cards, Min(used))
                                       ELSE d.used_cards],
              ok |-> TRUE]

\* Deck::add: ok is FALSE for Err.  The two checks come first, so the
\* position looked for among the used cards is never found.
Deck_add(d, card) ==
    LET used == {i \in DOMAIN d.used_cards : d.used_cards[i] = card}
    IN  IF card \in Range(d.used_cards) THEN [deck |-> d, ok |-> FALSE]
        ELSE IF card \in Range(d.cards) THEN [deck |-> d, ok |-> FALSE]
        ELSE [deck |-> [cards |-> Append(d.cards, card),
                        used_cards |-> IF used # {}
                                       THEN RemoveAt(d.used_cards, Min(used))
                                       ELSE d.used_cards],
              ok |-> TRUE]

----------------------------------------------------------------------------
(* Simulation driver: monte_carlo_simulation is the driver with no known   *)
(* community cards, monte_carlo_with_community the driver with some        *)

\* the values rng.gen_range(0..len) is let to return: RngChoices indices
\* spread over 0..len-1
RngChoices == 2

RngIndices(len) == {(k * len) \div RngChoices : k \in 0..(RngChoices - 1)}

\* the largest number of trials asked for
MaxSimulations == 2

\* the loops that remove the known cards as they would be if the first
\* card remove_card does not find ended the loop
RECURSIVE remove_known_until_failure(_, _)
remove_known_until_failure(d, cards) ==
    IF cards = <<>> THEN d
    ELSE LET removed == Deck_remove_card(d, Head(cards))
         IN  IF ~removed.ok
             THEN removed.deck
             ELSE remove_known_until_failure(removed.deck, Tail(cards))

\* the two loops that remove the known cards: on the Err of a card that
\* remove_card does not find, continue goes on with the next card of the
\* loop, as the loop does after an Ok
RECURSIVE remove_known(_, _)
remove_known(d, cards) ==
    IF cards = <<>> THEN d
    ELSE LET removed == Deck_remove_card(d, Head(cards))
         IN  IF ~removed.ok
             THEN remove_known(removed.deck, Tail(cards))  \* continue
             ELSE remove_known(removed.deck, Tail(cards))

\* (count as f64 / total_games as f64) * 100.0, kept as the exact fraction
\* count * 100 / total_games; den = 0 is the NaN that 0.0 / 0.0 gives.  The
\* f64 operations round monotonically and keep apart the rates of two
\* different counts of one total below 2^52, so the order of the fractions
\* is the order of the f64 values.
rate(count, total_games) == [num |-> count * 100, den |-> total_games]

\* f64::partial_cmp: None when either value is NaN
partial_cmp(a, b) ==
    IF a.den = 0 \/ b.den = 0 THEN "None"
    ELSE IF a.num * b.den < b.num * a.den THEN "Less"
    ELSE IF a.num * b.den > b.num * a.den THEN "Greater"
    ELSE "Equal"

\* SimulationResults::new
SimulationResults(total_games, w, l, t) ==
    [total_games |-> total_games, wins |-> w, losses |-> l, ties |-> t,
     win_rate |-> rate(w, total_games), tie_rate |-> rate(t, total_games)]

\* cards_needed as it would be if the known community cards were not
\* counted, as in the loop of monte_carlo_simulation
cards_needed_all_five(known) == 5

\* let cards_needed = 5 - known_community.len().  The drivers are called
\* here with at most 5 known cards, or with so many that no opponent hand
\* can be drawn and this line is not reached, so the usize difference does
\* not underflow.
cards_needed(known) == 5 - Len(known)

\* the match on the winner as it would be if a tie were left uncounted
tally_without_tie(winner, w, l, t) ==
    IF winner = "Hand A" THEN <<w + 1, l, t>>
    ELSE IF winner = "Hand B" THEN <<w, l + 1, t>>
    ELSE <<w, l, t>>

\* the match on the winner that ends a trial: the counters after it
tally(winner, w, l, t) ==
    IF winner = "Hand A" THEN <<w + 1, l, t>>
    ELSE IF winner = "Hand B" THEN <<w, l + 1, t>>
    ELSE IF winner = "Tie" THEN <<w, l, t + 1>>
    ELSE <<w, l, t>>

\* the hands and known community cards the drivers are called with; the
\* last hand holds one card twice; of the known cards, the third list
\* repeats a hole card and the last two name every card but the hole cards
\* and every such card but one
SimHands ==
    {<<Card(Ace, Spades), Card(King, Spades)>>,
     <<Card(Two, Clubs), Card(Seven, Diamonds)>>,
     <<Card(Ace, Spades), Card(Ace, Spades)>>}

\* the cards of the deck other than those of the hand, in the deck's order
OtherCards(hand) ==
    LET other(c) == c \notin Range(hand) IN SelectSeq(AllCards, other)

SimKnown ==
    {<<Card(Three, Spades), Card(Four, Spades), Card(Five, Hearts)>>,
     <<Card(Three, Spades), Card(Four, Spades), Card(Five, Hearts),
       Card(Nine, Diamonds), Card(King, Clubs)>>,
     <<Card(Ace, Spades), Card(Queen, Hearts), Card(Queen, Clubs)>>,
     OtherCards(<<Card(Ace, Spades), Card(King, Spades)>>),
     Take(OtherCards(<<Card(Ace, Spades), Card(King, Spades)>>), 49)}

SimInit ==
    /\ player_hand \in SimHands
    /\ known_community \in {<<>>} \cup
            (IF player_hand = <<Card(Ace, Spades), Card(King, Spades)>>
             THEN SimKnown ELSE {})
    /\ num_simulations \in 1..MaxSimulations
    /\ trials = 0
    /\ wins = 0
    /\ losses = 0
    /\ ties = 0
    /\ deck = [cards |-> <<>>, used_cards |-> <<>>]
    /\ opponent_hand = <<>>
    /\ trial_community = <<>>
    /\ sim_pc = "loop"
    /\ results = [total_games |-> 0, wins |-> 0, losses |-> 0, ties |-> 0]
    /\ EvalIdle
    /\ VerifyIdle
    /\ GenIdle
    /\ BulkIdle
    /\ DeckIdle
    /\ CardIdle

\* an iteration of the trial loop begins: a fresh deck, the known cards
\* removed from it
StartTrial ==
    /\ sim_pc = "loop"
    /\ trials < num_simulations
    /\ trials' = trials + 1
    /\ deck' = remove_known(remove_known(Deck_new, player_hand), known_community)
    /\ opponent_hand' = <<>>
    /\ trial_community' = <<>>
    /\ sim_pc' = "opp_card1"
    /\ UNCHANGED <<simInputs, wins, losses, ties, results,
                   evalVars, verifyVars, genVars, bulkVars, deckVars, cardVars>>

\* an opponent card is drawn; with no card to draw the trial is abandoned
DrawOpponent ==
    /\ sim_pc \in {"opp_card1", "opp_card2"}
    /\ IF deck.cards = <<>>
       THEN /\ sim_pc' = "loop"
            /\ UNCHANGED <<deck, opponent_hand, trial_community>>
       ELSE \E index \in RngIndices(Len(deck.cards)) :
              LET drawn == Deck_draw(deck, index)
              IN  /\ deck' = drawn.deck
                  /\ opponent_hand' = Append(opponent_hand, drawn.card)
                  /\ IF sim_pc = "opp_card1"
                     THEN /\ sim_pc' = "opp_card2"
                          /\ UNCHANGED trial_community
                     ELSE /\ sim_pc' = "community"
                          /\ trial_community' = known_community
    /\ UNCHANGED <<simInputs, trials, wins, losses, ties, results,
                   evalVars, verifyVars, genVars, bulkVars, deckVars, cardVars>>

\* the loop that completes the community cards: one draw, or the end of
\* the loop when cards_needed cards were drawn or the deck is empty
DrawCommunity ==
    /\ sim_pc = "community"
    /\ LET drawn_so_far == Len(trial_community) - Len(known_community)
       IN  IF drawn_so_far < cards_needed(known_community) /\ deck.cards # <<>>
           THEN \E index \in RngIndices(Len(deck.cards)) :
                  LET drawn == Deck_draw(deck, index)
                  IN  /\ deck' = drawn.deck
                      /\ trial_community' = Append(trial_community, drawn.card)
                      /\ sim_pc' = "community"
           ELSE /\ sim_pc' = "compare"
                /\ UNCHANGED <<deck, trial_community>>
    /\ UNCHANGED <<simInputs, trials, wins, losses, ties, opponent_hand, results,
                   evalVars, verifyVars, genVars, bulkVars, deckVars, cardVars>>

\* the end of a trial: abandoned with fewer than 5 community cards, else
\* the hands are compared and one counter is incremented
Tally ==
    /\ sim_pc = "compare"
    /\ IF Len(trial_community) < 5
       THEN UNCHANGED <<wins, losses, ties>>
       ELSE \E v \in verify(player_hand, opponent_hand, trial_community) :
              LET after == tally(v.winner, wins, losses, ties)
              IN  /\ wins' = after[1]
                  /\ losses' = after[2]
                  /\ ties' = after[3]
    /\ sim_pc' = "loop"
    /\ UNCHANGED <<simInputs, trials, deck, opponent_hand, trial_community,
                   results, evalVars, verifyVars, genVars, bulkVars, deckVars, cardVars>>

\* the trial loop is over: SimulationResults::new(num_simulations, ..)
Finish ==
    /\ sim_pc = "loop"
    /\ trials = num_simulations
    /\ results' = SimulationResults(num_simulations, wins, losses, ties)
    /\ sim_pc' = "done"
    /\ UNCHANGED <<simInputs, trials, wins, losses, ties, deck, opponent_hand,
                   trial_community, evalVars, verifyVars, genVars, bulkVars, deckVars, cardVars>>

SimNext == StartTrial \/ DrawOpponent \/ DrawCommunity \/ Tally \/ Finish

SpecSim == SimInit /\ [][SimNext]_vars

----------------------------------------------------------------------------
(* Properties of the simulation driver *)

\* 2 distinct hole cards and at most 5 distinct known community cards, none
\* of them a hole card
ValidSimInputs ==
    /\ Len(player_hand) = 2
    /\ Len(known_community) <= 5
    /\ Cardinality(Range(player_hand \o known_community))
          = 2 + Len(known_community)

\* C8: on valid inputs and N >= 1 trials every trial increments exactly one
\* of the three counters, and the result has
\* wins + losses + ties = N = total_games.
C8_EveryTrialCounted ==
    (ValidSimInputs /\ num_simulations >= 1)
        => /\ sim_pc = "loop" => wins + losses + ties = trials
           /\ sim_pc = "done"
                => /\ results.total_games = num_simulations
                   /\ results.wins + results.losses + results.ties
                         = num_simulations

\* a run of two trials has returned, one trial won and one tied
C8_Witness ==
    /\ ValidSimInputs
    /\ sim_pc = "done"
    /\ results.total_games = 2
    /\ results.wins = 1
    /\ results.ties = 1

\* the cards of the trial under way: the player's, the opponent's drawn so
\* far, and the community cards known or drawn so far
TrialCards ==
    player_hand \o opponent_hand \o
        (IF sim_pc \in {"opp_card1", "opp_card2"} THEN known_community
         ELSE trial_community)

\* C9: on distinct inputs the cards drawn in a trial are pairwise distinct
\* and none is a hole card or a known community card; the 9 cards compared
\* are 9 distinct cards.
C9_TrialCardsDistinct ==
    (ValidSimInputs /\ sim_pc \in {"opp_card1", "opp_card2", "community", "compare"})
        => /\ Cardinality(Range(TrialCards)) = Len(TrialCards)
           /\ (sim_pc = "compare" /\ Len(trial_community) = 5)
                => Cardinality(Range(TrialCards)) = 9

\* a trial with 3 known community cards has drawn the opponent's cards and
\* the 2 missing community cards and is about to compare the hands
C9_Witness ==
    /\ ValidSimInputs
    /\ sim_pc = "compare"
    /\ Len(known_community) = 3
    /\ Len(opponent_hand) = 2
    /\ Len(trial_community) = 5

\* C18: an abandoned trial does not count toward the total: in every
\* result, those of runs with abandoned trials included, total_games is the
\* number of trials tallied, wins + losses + ties.
C18_AbandonedNotCounted ==
    sim_pc = "done"
        => results.total_games = results.wins + results.losses + results.ties

\* a card is named twice among the hole cards and the known community
\* cards: the removal of its second occurrence fails
FailedRemoval ==
    Cardinality(Range(player_hand \o known_community))
        < Len(player_hand \o known_community)

C20_DeckNeverExhausted ==
    (Len(player_hand) = 2 /\ Len(known_community) <= 5)
        => /\ sim_pc \in {"opp_card1", "opp_card2"} => deck.cards # <<>>
           /\ sim_pc = "community"
                => /\ Len(trial_community) <= 5
                   /\ Len(trial_community) < 5 => deck.cards # <<>>
           /\ sim_pc = "compare"
                => /\ Len(opponent_hand) = 2
                   /\ Len(trial_community) = 5
           /\ sim_pc = "loop" => wins + losses + ties = trials

\* a trial with all 5 community cards known has drawn the opponent's hand
\* and reached the comparison
C20_Witness ==
    /\ sim_pc = "compare"
    /\ Len(known_community) = 5
    /\ Len(opponent_hand) = 2
    /\ trial_community = known_community

----------------------------------------------------------------------------
(* generate_all_starting_hands *)

\* the first inner index as it would be if j began at i
inner_start_at_i(i) == i

\* the first inner index of the outer index i: j runs over (i + 1)..len
inner_start(i) == i + 1

GenInit ==
    /\ hands = <<>>
    /\ gen_i = 0
    /\ gen_j = 0
    /\ gen_pc = "outer"
    /\ EvalIdle
    /\ VerifyIdle
    /\ SimIdle
    /\ BulkIdle
    /\ DeckIdle
    /\ CardIdle

\* for i in 0..all_cards.len(): the next i, or the end of the loop
GenOuter ==
    /\ gen_pc = "outer"
    /\ IF gen_i < Len(AllCards)
       THEN /\ gen_j' = inner_start(gen_i)
            /\ gen_pc' = "inner"
       ELSE /\ gen_pc' = "done"
            /\ UNCHANGED gen_j
    /\ UNCHANGED <<hands, gen_i, evalVars, verifyVars, simVars, bulkVars, deckVars, cardVars>>

\* for j in (i + 1)..all_cards.len(): the hand of the cards at i and j is
\* pushed
GenPush ==
    /\ gen_pc = "inner"
    /\ gen_j < Len(AllCards)
    /\ hands' = Append(hands, <<AllCards[gen_i + 1], AllCards[gen_j + 1]>>)
    /\ gen_j' = gen_j + 1
    /\ UNCHANGED <<gen_i, gen_pc, evalVars, verifyVars, simVars, bulkVars, deckVars, cardVars>>

\* the inner loop is over
GenInnerEnd ==
    /\ gen_pc = "inner"
    /\ gen_j >= Len(AllCards)
    /\ gen_i' = gen_i + 1
    /\ gen_pc' = "outer"
    /\ UNCHANGED <<hands, gen_j, evalVars, verifyVars, simVars, bulkVars, deckVars, cardVars>>

GenNext == GenOuter \/ GenPush \/ GenInnerEnd

SpecGen == GenInit /\ [][GenNext]_vars

\* the unordered pairs of cards the hands pushed are
HandPairs == {{hands[k][1], hands[k][2]} : k \in DOMAIN hands}

\* the unordered pairs of distinct cards of the 52-card deck
DeckPairs ==
    {{Card(r1, s1), Card(r2, s2)} : r1 \in Ranks, s1 \in Suits,
                                    r2 \in Ranks, s2 \in Suits}
        \ {{Card(r, st)} : r \in Ranks, st \in Suits}

\* C10: generate_all_starting_hands yields exactly 1326 hands: each is a
\* pair of two different cards, no unordered pair of cards occurs twice,
\* and every unordered pair of distinct cards of the 52-card deck occurs.
C10_AllStartingHands ==
    gen_pc = "done"
        => /\ Len(hands) = 1326
           /\ \A k \in DOMAIN hands : hands[k][1] # hands[k][2]
           /\ Cardinality(HandPairs) = Len(hands)
           /\ HandPairs = DeckPairs

\* the function has returned and the last hand pushed is that of the last
\* two cards
C10_Witness ==
    /\ gen_pc = "done"
    /\ hands # <<>>
    /\ hands[Len(hands)] = <<AllCards[51], AllCards[52]>>

----------------------------------------------------------------------------
(* bulk_monte_carlo_simulation *)

\* the outcomes of up to n successive draws from d: the deck after them and
\* the cards drawn, the drawing stopped at the first draw that returns None
RECURSIVE deal(_, _, _)
deal(d, n, drawn) ==
    IF n = 0 \/ d.cards = <<>> THEN {[deck |-> d, cards |-> drawn]}
    ELSE UNION {deal(Deck_draw(d, index).deck, n - 1,
                     Append(drawn, Deck_draw(d, index).card)) :
                    index \in RngIndices(Len(d.cards))}

\* one iteration of the trial loop of the drivers: the winners verify can
\* return over the draws of the trial, "abandoned" for a trial that is left
\* by continue
trial_winners(hand, known) ==
    LET start == remove_known(remove_known(Deck_new, hand), known)
        board(opp) ==
            UNION {LET community == known \o c.cards
                   IN  IF Len(community) < 5 THEN {"abandoned"}
                       ELSE {v.winner : v \in verify(hand, opp.cards, community)} :
                       c \in deal(opp.deck, cards_needed(known), <<>>)}
    IN  UNION {IF Len(opp.cards) < 2 THEN {"abandoned"} ELSE board(opp) :
                   opp \in deal(start, 2, <<>>)}

\* the counters <<wins, losses, ties>> that n iterations of the trial loop
\* can lead to from the counters given
RECURSIVE trial_loop(_, _, _)
trial_loop(winners, n, counters) ==
    IF n = 0 THEN counters
    ELSE trial_loop(winners, n - 1,
                    {tally(w, c[1], c[2], c[3]) : w \in winners, c \in counters})

\* the position (from 1) in the Vec generate_all_starting_hands returns of
\* the hand of the cards at the indices i < j (from 0): the hands of the
\* smaller outer indices come first, then those of i with a smaller j
hand_position(i, j) ==
    i * Len(AllCards) - ((i * (i + 1)) \div 2) + (j - i)

\* all_hands[position - 1]
starting_hand(position) ==
    LET n == Len(AllCards)
        at == CHOOSE p \in (0..(n - 1)) \X (0..(n - 1)) :
                  p[1] < p[2] /\ hand_position(p[1], p[2]) = position
    IN  <<AllCards[at[1] + 1], AllCards[at[2] + 1]>>

\* the number of hands the loop of bulk_monte_carlo_simulation is run on
BulkHands == 3

\* the hands the loop is run on: BulkHands of the hands of all_hands, spread
\* over it at equal distances, in its order
BulkHandList ==
    LET n == Len(AllCards)
        total == (n * (n - 1)) \div 2
    IN  [k \in 1..BulkHands |-> starting_hand(1 + (k - 1) * (total \div BulkHands))]

\* the winners a trial of monte_carlo_simulation on the k-th of these hands
\* can have
BulkWinners(k) == trial_winners(BulkHandList[k], <<>>)

\* monte_carlo_simulation(hand, simulations_per_hand) on the k-th of these
\* hands: the results it can return
monte_carlo_simulation(k, n) ==
    {SimulationResults(n, c[1], c[2], c[3]) :
        c \in trial_loop(bulk_winners[k], n, {<<0, 0, 0>>})}

\* HandResult::new; hand_description is a text made from hand alone
HandResult(hand, simulation_results) ==
    [hand |-> hand, results |-> simulation_results]

\* the comparison as it would be with a and b not exchanged
by_win_rate_ascending(a, b) ==
    partial_cmp(a.results.win_rate, b.results.win_rate)

\* |a, b| b.results.win_rate.partial_cmp(&a.results.win_rate)
by_win_rate(a, b) ==
    partial_cmp(b.results.win_rate, a.results.win_rate)

\* results.sort_by(..): a stable sort, an element placed after those the
\* comparison does not put behind it
RECURSIVE sort_by_win_rate(_)
sort_by_win_rate(rs) ==
    IF rs = <<>> THEN <<>>
    ELSE LET n == Len(rs)
             s == sort_by_win_rate(SubSeq(rs, 1, n - 1))
             r == rs[n]
             k == Cardinality({i \in DOMAIN s : by_win_rate(r, s[i]) # "Less"})
         IN  SubSeq(s, 1, k) \o <<r>> \o SubSeq(s, k + 1, Len(s))

\* the unwrap of a comparison panics: some win_rate compared is NaN
sort_panics(rs) ==
    \E i, j \in DOMAIN rs : i # j /\ by_win_rate(rs[i], rs[j]) = "None"

BulkInit ==
    /\ bulk_winners = [k \in 1..BulkHands |-> BulkWinners(k)]
    /\ simulations_per_hand \in 0..MaxSimulations
    /\ bulk_index = 0
    /\ bulk_results = <<>>
    /\ bulk_pc = "loop"
    /\ EvalIdle
    /\ VerifyIdle
    /\ SimIdle
    /\ GenIdle
    /\ DeckIdle
    /\ CardIdle

\* an iteration of the loop over all_hands: the hand is simulated and its
\* HandResult pushed
BulkSimulate ==
    /\ bulk_pc = "loop"
    /\ bulk_index < BulkHands
    /\ \E r \in monte_carlo_simulation(bulk_index + 1, simulations_per_hand) :
          bulk_results' =
              Append(bulk_results, HandResult(BulkHandList[bulk_index + 1], r))
    /\ bulk_index' = bulk_index + 1
    /\ UNCHANGED <<simulations_per_hand, bulk_pc, bulk_winners,
                   evalVars, verifyVars, simVars, genVars, deckVars, cardVars>>

\* the loop is over: the results are sorted and returned, unless a
\* comparison of the sort panics
BulkSort ==
    /\ bulk_pc = "loop"
    /\ bulk_index = BulkHands
    /\ IF sort_panics(bulk_results)
       THEN /\ bulk_pc' = "panicked"
            /\ UNCHANGED bulk_results
       ELSE /\ bulk_pc' = "done"
            /\ bulk_results' = sort_by_win_rate(bulk_results)
    /\ UNCHANGED <<simulations_per_hand, bulk_index, bulk_winners,
                   evalVars, verifyVars, simVars, genVars, deckVars, cardVars>>

BulkNext == BulkSimulate \/ BulkSort

SpecBulk == BulkInit /\ [][BulkNext]_vars

\* the number of times x occurs in the sequence s
Occurrences(x, s) == Cardinality({i \in DOMAIN s : s[i] = x})

\* C11: for n >= 1 the sequence bulk_monte_carlo_simulation(n) returns is
\* non-increasing in win rate and in win count, and it is a permutation of
\* the per-hand results: the sort adds, drops and alters no HandResult.
C11_SortedPermutation ==
    [][(simulations_per_hand >= 1 /\ bulk_pc = "loop" /\ bulk_pc' # "loop")
        => /\ bulk_pc' = "done"
           /\ \A i \in 1..(Len(bulk_results') - 1) :
                 /\ partial_cmp(bulk_results'[i].results.win_rate,
                                bulk_results'[i + 1].results.win_rate)
                        \in {"Greater", "Equal"}
                 /\ bulk_results'[i].results.wins
                        >= bulk_results'[i + 1].results.wins
           /\ Len(bulk_results') = Len(bulk_results)
           /\ \A x \in Range(bulk_results) \cup Range(bulk_results') :
                 Occurrences(x, bulk_results') = Occurrences(x, bulk_results)]_vars

\* the function has returned, and a hand simulated later than another,
\* with more wins than it, stands before it
C11_Witness ==
    /\ bulk_pc = "done"
    /\ simulations_per_hand >= 1
    /\ \E i, j \in DOMAIN bulk_results, a, b \in 1..BulkHands :
          /\ i < j
          /\ a < b
          /\ bulk_results[i].hand = BulkHandList[b]
          /\ bulk_results[j].hand = BulkHandList[a]
          /\ bulk_results[i].results.wins > bulk_results[j].results.wins

----------------------------------------------------------------------------
(* A deck and the calls of its methods *)

\* the call made and what it returned: card is the argument of remove_card
\* and add and the card draw returned (NoCard for None); ok is FALSE for
\* None and for Err
DeckOp(name, card, ok) == [name |-> name, card |-> card, ok |-> ok]

\* let mut deck = Deck::new()
DeckInit ==
    /\ a_deck = Deck_new
    /\ deck_op = NoDeckOp
    /\ deck_ops = 0
    /\ EvalIdle
    /\ VerifyIdle
    /\ SimIdle
    /\ GenIdle
    /\ BulkIdle
    /\ CardIdle

\* the number of leading draws of a deck drawn to its end whose index is
\* any of RngIndices; the later draws take the index 0
FreeDraws == 6

\* the number of draws made on the deck after its last card was drawn
DrawsBeyond == 2

\* deck.draw() with the index given
DrawAt(index) ==
    LET drawn == Deck_draw(a_deck, index)
    IN  /\ a_deck' = drawn.deck
        /\ deck_op' = DeckOp("draw", drawn.card, drawn.card # NoCard)
        /\ deck_ops' = deck_ops + 1
        /\ UNCHANGED <<evalVars, verifyVars, simVars, genVars, bulkVars, cardVars>>

\* one of the successive draws of a deck that is only drawn from
DrawNext ==
    /\ deck_ops < Len(AllCards) + DrawsBeyond
    /\ \E index \in (IF deck_ops < FreeDraws
                     THEN RngIndices(Len(a_deck.cards)) ELSE {0}) :
          DrawAt(index)

SpecDraw == DeckInit /\ [][DrawNext]_vars

\* C12: a deck built by Deck::new has 52 available and 0 used cards; 52
\* successive draws return 52 pairwise distinct cards, and every draw after
\* them returns None and leaves the deck unchanged.
C12_FiftyTwoDistinctDraws ==
    /\ [](/\ deck_ops = 0
             => /\ Len(a_deck.cards) = 52
                /\ Cardinality(Range(a_deck.cards)) = 52
                /\ a_deck.used_cards = <<>>
          /\ (deck_ops >= 1 /\ deck_ops <= 52)
             => /\ deck_op.ok
                /\ Len(a_deck.used_cards) = deck_ops
                /\ deck_op.card = a_deck.used_cards[deck_ops]
                /\ Cardinality(Range(a_deck.used_cards)) = deck_ops
                /\ Len(a_deck.cards) = 52 - deck_ops
          /\ deck_ops > 52
             => /\ deck_op = DeckOp("draw", NoCard, FALSE)
                /\ a_deck.cards = <<>>
                /\ Len(a_deck.used_cards) = 52)
    /\ [][deck_ops >= 52 => a_deck' = a_deck]_vars

\* 52 cards were drawn, not in the order of the deck, and a further draw
\* has returned None
C12_Witness ==
    /\ deck_ops = 53
    /\ deck_op = DeckOp("draw", NoCard, FALSE)
    /\ a_deck.used_cards # AllCards
    /\ Range(a_deck.used_cards) = Range(AllCards)

\* the largest number of calls made on a deck that is drawn from, removed
\* from and added to
MaxDeckOps == 4

\* the cards remove_card and add are called with: the card the index 0
\* draws first, the card the middle index draws first, and the last card
DeckOpCards == {AllCards[1], AllCards[27], AllCards[52]}

\* deck.draw()
DeckDraw ==
    /\ deck_ops < MaxDeckOps
    /\ \E index \in RngIndices(Len(a_deck.cards)) : DrawAt(index)

\* deck.remove_card(&card)
DeckRemove ==
    /\ deck_ops < MaxDeckOps
    /\ \E card \in DeckOpCards :
          LET removed == Deck_remove_card(a_deck, card)
          IN  /\ a_deck' = removed.deck
              /\ deck_op' = DeckOp("remove_card", card, removed.ok)
    /\ deck_ops' = deck_ops + 1
    /\ UNCHANGED <<evalVars, verifyVars, simVars, genVars, bulkVars, cardVars>>

\* deck.add(card)
DeckAdd ==
    /\ deck_ops < MaxDeckOps
    /\ \E card \in DeckOpCards :
          LET added == Deck_add(a_deck, card)
          IN  /\ a_deck' = added.deck
              /\ deck_op' = DeckOp("add", card, added.ok)
    /\ deck_ops' = deck_ops + 1
    /\ UNCHANGED <<evalVars, verifyVars, simVars, genVars, bulkVars, cardVars>>

DeckNext == DeckDraw \/ DeckRemove \/ DeckAdd

SpecDeck == DeckInit /\ [][DeckNext]_vars

Available == Range(a_deck.cards)
Used == Range(a_deck.used_cards)

\* C13: after any sequence of draw, remove_card and add on a deck built by
\* Deck::new the available and the used cards are disjoint, neither holds a
\* card twice, and together they are exactly the 52 cards of the deck.
C13_DeckPartition ==
    /\ Available \cap Used = {}
    /\ Cardinality(Available) = Len(a_deck.cards)
    /\ Cardinality(Used) = Len(a_deck.used_cards)
    /\ Available \cup Used = Range(AllCards)
    /\ Len(a_deck.cards) + Len(a_deck.used_cards) = 52

\* a card was drawn, another removed, and add was called last
C13_Witness ==
    /\ deck_op.name = "add"
    /\ AllCards[52] \in Used
    /\ \E card \in Used : card \notin DeckOpCards

\* C14: remove_card(c) on an available card returns Ok, moves c from the
\* available to the used cards and moves no other card; on a card that is
\* not available it returns an error and changes neither set; so the second
\* of two removals of one card fails.
C14_RemoveCard ==
    [][deck_op'.name = "remove_card"
        => LET c == deck_op'.card
           IN  /\ c \in Available
                    => /\ deck_op'.ok
                       /\ Available' = Available \ {c}
                       /\ Used' = Used \cup {c}
                       /\ Len(a_deck'.cards) = Len(a_deck.cards) - 1
                       /\ Len(a_deck'.used_cards) = Len(a_deck.used_cards) + 1
               /\ c \notin Available
                    => /\ ~deck_op'.ok
                       /\ a_deck' = a_deck
               /\ (deck_op = DeckOp("remove_card", c, TRUE)) => ~deck_op'.ok]_vars

\* the last card of the deck was removed by the first call and the second
\* call, a removal of it again, has failed
C14_Witness ==
    /\ deck_ops = 2
    /\ deck_op = DeckOp("remove_card", AllCards[52], FALSE)
    /\ a_deck.used_cards = <<AllCards[52]>>

C21_AddMovesUsedCardBack ==
    [][(deck_op'.name = "add" /\ deck_op'.card \in Used)
        => /\ deck_op'.ok
           /\ deck_op'.card \notin Used'
           /\ deck_op'.card \in Available'
           /\ Used' = Used \ {deck_op'.card}
           /\ Available' = Available \cup {deck_op'.card}]_vars

----------------------------------------------------------------------------
(* Card::from_numbers called on given numbers *)

\* the largest u8
U8Max == 255

CardInit ==
    /\ rank_arg \in 0..U8Max
    /\ suit_arg \in 0..U8Max
    /\ made_card = NotMade
    /\ EvalIdle
    /\ VerifyIdle
    /\ SimIdle
    /\ GenIdle
    /\ BulkIdle
    /\ DeckIdle

\* Card::from_numbers(rank_num, suit_num)
FromNumbers ==
    /\ made_card = NotMade
    /\ made_card' = Card_from_numbers(rank_arg, suit_arg)
    /\ UNCHANGED <<rank_arg, suit_arg,
                   evalVars, verifyVars, simVars, genVars, bulkVars, deckVars>>

CardNext == FromNumbers

SpecCard == CardInit /\ [][CardNext]_vars

\* C16: Card::from_numbers(rank, suit) returns a card exactly when
\* 1 <= rank <= 13 and 1 <= suit <= 4 and None for every other pair of u8
\* numbers; rank number 1 gives the Ace and 2..13 the rank of that value, so
\* that the 52 valid pairs give 52 pairwise distinct cards.
C16_FromNumbers ==
    made_card # NotMade
        => /\ (made_card # NoCard) <=> (rank_arg \in 1..13 /\ suit_arg \in 1..4)
           /\ made_card # NoCard
                => /\ made_card.rank = (IF rank_arg = 1 THEN Ace ELSE rank_arg)
                   /\ made_card.rank \in Ranks
                   /\ made_card.suit = SuitOrder[suit_arg]
                   /\ \A r \in 1..13, st \in 1..4 :
                         Card_from_numbers(r, st) = made_card
                            => (r = rank_arg /\ st = suit_arg)

\* the call with rank number 1 and suit number 4 has returned the Ace of
\* Clubs
C16_Witness ==
    /\ rank_arg = 1
    /\ suit_arg = 4
    /\ made_card = Card(Ace, Clubs)

====
